---- MODULE Spec2Model ----
(***************************************************************************)
(* Model of the collaborative-editing backend in main.py: the in-memory    *)
(* room registry FILES, the REST handlers that create and save rooms, the  *)
(* broadcast fan-out and the per-connection coroutine websocket_endpoint.  *)
(*                                                                         *)
(* The server is a single-threaded asyncio program.  A coroutine runs      *)
(* without interruption from one await to the next, so every action below  *)
(* is one such uninterrupted stretch of code: it starts where a coroutine  *)
(* is resumed (an inbound text arrived, a send completed or failed) and    *)
(* ends at the next await that really suspends.                            *)
(***************************************************************************)
EXTENDS Integers, Sequences, FiniteSets, TLC

----------------------------------------------------------------------------
(* Values *)

\* Python's None, also what dict.get returns for a missing key.
None == "None"

\* main.py:26
LOCK_TIMEOUT == 60 * 10

\* main.py:29 (the template is an opaque text for the server)
BLANK_BPMN_XML == "blank"

\* The websocket objects, one per connection ever accepted, named in the
\* order in which the server accepts them.
ConnOrder == <<"c1", "c2">>
Conns == {ConnOrder[i] : i \in DOMAIN ConnOrder}

\* Characters of file ids; a file id is a sequence of them.
Chars == {" ", "a", "b"}

\* file_id path parameters: the document whose sessions are studied, and
\* all those used by clients.
Doc == <<"a">>
FileIds == {Doc, <<"b">>}

\* payload.name values posted to POST /files.
Names == {<<>>, <<" ">>, <<"a">>, <<" ", "a">>, <<"b", " ">>}

\* Document bodies sent by clients.
Contents == {"x1"}

\* "user" field of a join message: missing, empty or a name.
UserVals == {None, "", "alice"}

\* "element" field of focus and blur messages.
Elems == {"e1"}

\* Seconds by which the clock is seen to advance.
TickSteps == {LOCK_TIMEOUT, LOCK_TIMEOUT + 1}

\* Events of the environment in one run of the server: inbound texts, REST
\* requests, dropped transports and clock advances.
MaxEvents == 3

\* Inbound texts after json.loads.  "garbage" is a text json.loads rejects (or
\* a JSON value that is not an object, on which data.get raises).
\* A field that is absent from the object has the value None here, except
\* "xml", which the code reads with data["xml"]: absent is Missing.
Missing == "Missing"

Msg(t, u, x, e) == [type |-> t, user |-> u, xml |-> x, element |-> e]

Messages ==
    {Msg("garbage", None, Missing, None)}
    \cup {Msg("join", u, Missing, None) : u \in UserVals}
    \cup {Msg(t, None, Missing, None) : t \in {"lock", "unlock", "other"}}
    \cup {Msg("xml", None, x, None) : x \in Contents \cup {Missing}}
    \cup {Msg("focus", None, Missing, e) : e \in Elems \cup {None, ""}}
    \cup {Msg("blur", None, Missing, e) : e \in Elems \cup {None}}

----------------------------------------------------------------------------
(* State *)

VARIABLES
    FILES,      \* main.py:24: file id -> room (xml, lock, users, focus, sockets)
    now,        \* time.time()
    pc,         \* where each connection's coroutine is suspended
    fileOf,     \* file_id of each connection's coroutine
    username,   \* local variable username of each coroutine
    bc,         \* the broadcast a coroutine is suspended in (locals of broadcast)
    reply,      \* the private text a coroutine is sending (main.py:173)
    peer,       \* transport of each connection: "open" or "closed"
    lastState,  \* last "state" text delivered to each client
    cleaned,    \* how many times each coroutine ran its finally block
    events,     \* events of the environment so far
    response,   \* the last response of a REST handler
    grantee,    \* history: the connections whose lock request was granted the
                \* lock that is on their room
    owed,       \* history: per client, the kinds of room updates made while it
                \* was in the room that no "state" text it got since reflects
    covers      \* history: per broadcast in progress, the <<client, kind>> for
                \* which its "state" text was built after the oldest update owed

vars == <<FILES, now, pc, fileOf, username, bc, reply, peer, lastState,
          cleaned, events, response, grantee, owed, covers>>

\* Kinds of room updates: "state" for those the code follows with push_state
\* (join, granted lock, unlock, focus, blur, cleanup), "xml" for a content
\* update, which it follows with an "xml" event only.
Kinds == {"state", "xml"}
AllCovered == Conns \X Kinds

\* room["lock"]: <<>> is None, <<l>> is the dict l = {"by": .., "since": ..}.
NoLock == <<>>
Lock(by, since) == <<[by |-> by, since |-> since]>>

\* main.py:70-76 and 138-144
NewRoom(xml) ==
    [xml |-> xml, lock |-> NoLock, users |-> {}, focus |-> <<>>, sockets |-> {}]

\* Responses of the REST handlers: JSONResponse(content, status_code), or
\* the returned dict with status 200.  NoResponse: no request yet.
NoResponse == [status |-> 0]
Error(code, text) == [status |-> code, error |-> text]
Ok200(content) == [status |-> 200, content |-> content]

\* No broadcast in progress.
NoBc == [msg |-> [type |-> "none"], todo |-> {}, dead |-> {}, then |-> "none"]

Init ==
    /\ FILES = <<>>
    /\ now = 0
    /\ pc = [c \in Conns |-> "init"]
    /\ fileOf = [c \in Conns |-> <<>>]
    /\ username = [c \in Conns |-> None]
    /\ bc = [c \in Conns |-> NoBc]
    /\ reply = [c \in Conns |-> <<>>]
    /\ peer = [c \in Conns |-> "closed"]
    /\ lastState = [c \in Conns |-> <<>>]
    /\ cleaned = [c \in Conns |-> 0]
    /\ events = 0
    /\ response = NoResponse
    /\ grantee = {}
    /\ owed = [c \in Conns |-> {}]
    /\ covers = [c \in Conns |-> {}]

----------------------------------------------------------------------------
(* Helpers: dicts, sets, str.strip *)

\* d[k] = v on a dict d
Put(d, k, v) == [x \in DOMAIN d \cup {k} |-> IF x = k THEN v ELSE d[x]]

\* del d[k]
Del(d, k) == [x \in DOMAIN d \ {k} |-> d[x]]

RECURSIVE LStrip(_)
LStrip(s) == IF s # <<>> /\ Head(s) = " " THEN LStrip(Tail(s)) ELSE s

RECURSIVE RStrip(_)
RStrip(s) ==
    IF s # <<>> /\ s[Len(s)] = " " THEN RStrip(SubSeq(s, 1, Len(s) - 1)) ELSE s

\* Mutant of strip: the spaces at the end are kept.
stripLeft(s) == LStrip(s)

\* str.strip(), main.py:64
strip(s) == RStrip(LStrip(s))

\* x or y, for x a string or None
Or(x, y) == IF x \in {None, ""} THEN y ELSE x

----------------------------------------------------------------------------
(* REST handlers and the clock *)

\* POST /files, main.py:62-77
create_file(name, xml) ==
    LET fid == strip(name) IN
    /\ events < MaxEvents
    /\ events' = events + 1
    /\ IF fid = <<>>
       THEN /\ response' = Error(400, "Name cannot be empty")
            /\ UNCHANGED FILES
       ELSE IF fid \in DOMAIN FILES
       THEN /\ response' = Error(409, "File already exists")
            /\ UNCHANGED FILES
       ELSE /\ FILES' = Put(FILES, fid, NewRoom(Or(xml, BLANK_BPMN_XML)))
            /\ response' = Ok200([ok |-> TRUE, id |-> fid])
    /\ UNCHANGED <<now, pc, fileOf, username, bc, reply, peer, lastState,
                   cleaned, grantee, owed, covers>>

\* PUT /files/{file_id}, main.py:89-96
save_file(file_id, xml) ==
    /\ events < MaxEvents
    /\ events' = events + 1
    /\ IF file_id \notin DOMAIN FILES
       THEN /\ response' = Error(404, "File not found")
            /\ UNCHANGED FILES
       ELSE /\ FILES' = [FILES EXCEPT ![file_id].xml = xml]
            /\ response' = Ok200([ok |-> TRUE])
    /\ UNCHANGED <<now, pc, fileOf, username, bc, reply, peer, lastState,
                   cleaned, grantee, owed, covers>>

\* time.time() grows between two resumptions of the event loop.
Tick(d) ==
    /\ events < MaxEvents
    /\ events' = events + 1
    /\ now' = now + d
    /\ UNCHANGED <<FILES, pc, fileOf, username, bc, reply, peer, lastState,
                   cleaned, response, grantee, owed, covers>>

----------------------------------------------------------------------------
(* broadcast and push_state *)

\* The "state" message of push_state, main.py:123-129, as serialized by
\* json.dumps at the start of broadcast (main.py:105).
StateMsg(room) ==
    [type |-> "state", xml |-> room.xml, lock |-> room.lock,
     users |-> room.users, focus |-> room.focus]

\* A coroutine of room fid calls broadcast(fid, message) and, when that
\* returns, goes on with "then": "push" (call push_state, then await the next
\* inbound text), "recv" (await the next inbound text) or "done" (the
\* coroutine ends).  The result is where the coroutine suspends next.
\* broadcast copies the socket set (main.py:108); with no socket in it, it
\* returns without suspending, and so does a push_state that follows.
Run(files, fid, message, then) ==
    IF files[fid].sockets # {}
    THEN [pc |-> "bcast",
          bc |-> [msg |-> message, todo |-> files[fid].sockets, dead |-> {},
                  then |-> then]]
    ELSE [pc |-> IF then = "push" THEN "recv" ELSE then, bc |-> NoBc]

\* push_state(fid) followed by "then" ("recv" or "done"), main.py:118-129
PushState(files, fid, then) == Run(files, fid, StateMsg(files[fid]), then)

\* The coroutine of c goes on as r says.
Goto(c, r) ==
    /\ pc' = [pc EXCEPT ![c] = r.pc]
    /\ bc' = [bc EXCEPT ![c] = r.bc]
    /\ peer' = IF r.pc = "done" THEN [peer EXCEPT ![c] = "closed"] ELSE peer

\* What the broadcast r.bc of c covers when it starts: everything owed so
\* far if it carries a "state" text built now, nothing otherwise.
NewCover(r) ==
    IF r.pc = "bcast" /\ r.bc.msg.type = "state" THEN AllCovered ELSE {}

\* History: the coroutine of c made an update of the given kind to its room,
\* whose sockets are then S, and goes on as r says.  Every client in S is
\* owed a "state" text built from now on; the texts built before do not
\* cover that.
Updated(c, kind, S, r) ==
    LET late == {p \in AllCovered :
                   p[1] \in S /\ p[2] = kind /\ kind \notin owed[p[1]]}
    IN  /\ owed' = [ws \in Conns |->
                      IF ws \in S THEN owed[ws] \cup {kind}
                      ELSE IF ws = c /\ r.pc # "recv" THEN {}
                      ELSE owed[ws]]
        /\ covers' = [x \in Conns |->
                        IF x = c THEN NewCover(r) ELSE covers[x] \ late]

\* A text reaches the client of ws.
Deliver(ws, message) ==
    lastState' = IF message.type = "state"
                 THEN [lastState EXCEPT ![ws] = <<message>>]
                 ELSE lastState

\* ws.send_text(text) succeeds while the transport of ws is open.  On a
\* closed transport it raises, or the text is dropped without an error.
CanDeliver(ws) == peer[ws] = "open"

\* Mutant of Pruned: the sockets whose send raised stay in the room.
PrunedNone(sockets, dead) == sockets

\* The second loop of broadcast, main.py:114-115.
Pruned(sockets, dead) == sockets \ dead

\* One iteration of the loop of broadcast, main.py:108-112: the await of
\* ws.send_text ends, with the text delivered or with an exception.  The
\* coroutine is suspended in every send, so that other coroutines run between
\* two sends and the order in which the awaits of different coroutines end
\* is not fixed.  After the last send, the second loop (main.py:114-115) and
\* whatever follows the broadcast, up to the next suspension.
Send(c, ws, raises) ==
    /\ pc[c] = "bcast"
    /\ ws \in bc[c].todo
    /\ IF CanDeliver(ws)
       THEN /\ ~raises
            /\ Deliver(ws, bc[c].msg)
            /\ owed' = [owed EXCEPT ![ws] =
                          {k \in @ : <<ws, k>> \notin covers[c]}]
       ELSE UNCHANGED <<lastState, owed>>
    /\ LET fid   == fileOf[c]
           todo  == bc[c].todo \ {ws}
           dead  == IF raises THEN bc[c].dead \cup {ws} ELSE bc[c].dead
           files == [FILES EXCEPT ![fid].sockets = Pruned(@, dead)]
           r     == IF bc[c].then = "push"
                    THEN PushState(files, fid, "recv")
                    ELSE [pc |-> bc[c].then, bc |-> NoBc]
       IN  IF todo # {}
           THEN /\ bc' = [bc EXCEPT ![c].todo = todo, ![c].dead = dead]
                /\ UNCHANGED <<FILES, pc, peer, covers>>
           ELSE /\ FILES' = files
                /\ Goto(c, r)
                /\ covers' = [covers EXCEPT ![c] = NewCover(r)]
    /\ UNCHANGED <<now, fileOf, username, reply, cleaned, events, response,
                   grantee>>

----------------------------------------------------------------------------
(* websocket_endpoint *)

\* main.py:134-148: accept, create the room if needed, register the socket.
Connect(c, file_id) ==
    /\ pc[c] = "init"
    /\ \A i, j \in DOMAIN ConnOrder :
         i < j /\ ConnOrder[j] = c => pc[ConnOrder[i]] # "init"
    /\ LET files == IF file_id \in DOMAIN FILES
                    THEN FILES
                    ELSE Put(FILES, file_id, NewRoom(BLANK_BPMN_XML))
       IN  FILES' = [files EXCEPT ![file_id].sockets = @ \cup {c}]
    /\ fileOf' = [fileOf EXCEPT ![c] = file_id]
    /\ username' = [username EXCEPT ![c] = None]
    /\ pc' = [pc EXCEPT ![c] = "recv"]
    /\ peer' = [peer EXCEPT ![c] = "open"]
    /\ UNCHANGED <<now, bc, reply, lastState, cleaned, events, response,
                   grantee, owed, covers>>

\* The client goes away or the network drops; the coroutine learns of it at
\* its next receive_text or send_text.
Drop(c) ==
    /\ pc[c] \notin {"init", "done"}
    /\ peer[c] = "open"
    /\ events < MaxEvents
    /\ events' = events + 1
    /\ peer' = [peer EXCEPT ![c] = "closed"]
    /\ UNCHANGED <<FILES, now, pc, fileOf, username, bc, reply, lastState,
                   cleaned, response, grantee, owed, covers>>

\* Mutants of CleanedRoom: the lock is not cleared; the username stays.
CleanedRoomKeepsLock(room, c, user) ==
    [room EXCEPT !.sockets = @ \ {c}, !.users = @ \ {user}]
CleanedRoomKeepsUser(room, c, user) ==
    [room EXCEPT
       !.sockets = @ \ {c},
       !.lock    = IF @ # NoLock /\ @[1].by = user THEN NoLock ELSE @]

\* The room after the finally block's updates, main.py:208-213.
CleanedRoom(room, c, user) ==
    [room EXCEPT
       !.sockets = @ \ {c},
       !.users   = @ \ {user},
       !.lock    = IF @ # NoLock /\ @[1].by = user THEN NoLock ELSE @]

\* History: the grantees once the lock of room fid is no longer the one
\* they were granted.
Ungranted(fid) == {g \in grantee : fileOf[g] # fid}

\* Mutant of Cleanup: the socket, the username and its lock are removed from
\* every room of the registry.
CleanupAllRooms(c) ==
    LET fid   == fileOf[c]
        files == [f \in DOMAIN FILES |-> CleanedRoom(FILES[f], c, username[c])]
        r     == PushState(files, fid, "done")
    IN  /\ FILES' = files
        /\ Goto(c, r)
        /\ Updated(c, "state", files[fid].sockets, r)
        /\ reply' = [reply EXCEPT ![c] = <<>>]
        /\ cleaned' = [cleaned EXCEPT ![c] = @ + 1]
        /\ grantee' = {g \in grantee :
                          files[fileOf[g]].lock = FILES[fileOf[g]].lock}
        /\ UNCHANGED <<now, fileOf, username, lastState, response>>

\* The finally block, main.py:207-215, up to the first suspension of its
\* push_state.  The loop is left by an exception.
Cleanup(c) ==
    LET fid   == fileOf[c]
        files == [FILES EXCEPT ![fid] = CleanedRoom(@, c, username[c])]
        r     == PushState(files, fid, "done")
    IN  /\ FILES' = files
        /\ Goto(c, r)
        /\ Updated(c, "state", files[fid].sockets, r)
        /\ reply' = [reply EXCEPT ![c] = <<>>]
        /\ cleaned' = [cleaned EXCEPT ![c] = @ + 1]
        /\ grantee' = IF files[fid].lock = FILES[fid].lock
                      THEN grantee ELSE Ungranted(fid)
        /\ UNCHANGED <<now, fileOf, username, lastState, response>>

\* receive_text raises WebSocketDisconnect, main.py:152 and 205.
Disconnect(c) ==
    /\ pc[c] = "recv"
    /\ peer[c] = "closed"
    /\ Cleanup(c)
    /\ UNCHANGED events

\* An inbound text m is there for the coroutine of c, main.py:152-154.
Receives(c, m) ==
    /\ pc[c] = "recv"
    /\ peer[c] = "open"
    /\ m \in Messages
    /\ events < MaxEvents
    /\ events' = events + 1

\* json.loads or data.get raises, main.py:153-154.
OnGarbage(c, m) ==
    /\ Receives(c, m)
    /\ m.type = "garbage"
    /\ Cleanup(c)

\* main.py:156-159
OnJoin(c, m) ==
    /\ Receives(c, m)
    /\ m.type = "join"
    /\ LET fid   == fileOf[c]
           user  == Or(m.user, "anon")
           files == [FILES EXCEPT ![fid].users = @ \cup {user}]
           r     == PushState(files, fid, "recv")
       IN  /\ username' = [username EXCEPT ![c] = user]
           /\ FILES' = files
           /\ Goto(c, r)
           /\ Updated(c, "state", files[fid].sockets, r)
    /\ UNCHANGED <<now, fileOf, reply, lastState, cleaned, response, grantee>>

\* Mutants of Expired: the comparison reversed; the expiry check left out;
\* a lock of exactly LOCK_TIMEOUT seconds taken for expired.
ExpiredReversed(lock, t) == lock # NoLock /\ t - lock[1].since < LOCK_TIMEOUT
ExpiredNever(lock, t) == FALSE
ExpiredAtTimeout(lock, t) == lock # NoLock /\ t - lock[1].since >= LOCK_TIMEOUT

\* main.py:165: the lock is there and older than LOCK_TIMEOUT at time t.
Expired(lock, t) == lock # NoLock /\ t - lock[1].since > LOCK_TIMEOUT

\* main.py:165-166: the lock after the lazy expiry check.
AfterExpiry(lock, t) == IF Expired(lock, t) THEN NoLock ELSE lock

\* Mutant of Granted: the test of main.py:168 left out.
GrantedAlways(lock, t) == TRUE

\* main.py:168: the request is granted.
Granted(lock, t) == AfterExpiry(lock, t) = NoLock

\* The private reply of main.py:173-176.
LockDenied(lock) == [type |-> "lock-denied", lock |-> lock]

\* main.py:161-176
OnLock(c, m) ==
    /\ Receives(c, m)
    /\ m.type = "lock"
    /\ LET fid   == fileOf[c]
           lock  == FILES[fid].lock
           files == [FILES EXCEPT ![fid].lock = Lock(username[c], now)]
           r     == Run(files, fid, [type |-> "lock", by |-> username[c]],
                        "push")
       IN  IF Granted(lock, now)
           THEN /\ FILES' = files
                /\ Goto(c, r)
                /\ Updated(c, "state", files[fid].sockets, r)
                /\ grantee' = Ungranted(fid) \cup {c}
                /\ UNCHANGED reply
           ELSE /\ FILES' = [FILES EXCEPT ![fid].lock = AfterExpiry(lock, now)]
                /\ reply' = [reply EXCEPT ![c] =
                               <<LockDenied(AfterExpiry(lock, now))>>]
                /\ pc' = [pc EXCEPT ![c] = "reply"]
                /\ UNCHANGED <<bc, peer, grantee, owed, covers>>
    /\ UNCHANGED <<now, fileOf, username, lastState, cleaned, response>>

\* The private send of main.py:173 completes, or raises and the loop is left.
Reply(c, raises) ==
    /\ pc[c] = "reply"
    /\ IF raises
       THEN /\ ~CanDeliver(c)
            /\ Cleanup(c)
       ELSE /\ IF CanDeliver(c)
               THEN Deliver(c, reply[c][1])
               ELSE UNCHANGED lastState
            /\ reply' = [reply EXCEPT ![c] = <<>>]
            /\ pc' = [pc EXCEPT ![c] = "recv"]
            /\ UNCHANGED <<FILES, now, fileOf, username, bc, peer, cleaned,
                           response, grantee, owed, covers>>
    /\ UNCHANGED events

\* Mutant of MayUnlock: the holder is not compared.
MayUnlockAnyone(lock, user) == lock # NoLock

\* main.py:179: the session may clear the lock.
MayUnlock(lock, user) == lock # NoLock /\ lock[1].by = user

\* main.py:178-182
OnUnlock(c, m) ==
    /\ Receives(c, m)
    /\ m.type = "unlock"
    /\ LET fid   == fileOf[c]
           files == [FILES EXCEPT ![fid].lock = NoLock]
           r     == Run(files, fid, [type |-> "unlock"], "push")
       IN  IF MayUnlock(FILES[fid].lock, username[c])
           THEN /\ FILES' = files
                /\ Goto(c, r)
                /\ Updated(c, "state", files[fid].sockets, r)
                /\ grantee' = Ungranted(fid)
           ELSE UNCHANGED <<FILES, pc, bc, peer, grantee, owed, covers>>
    /\ UNCHANGED <<now, fileOf, username, reply, lastState, cleaned,
                   response>>

\* main.py:184-186: the session may replace the content (every session may,
\* "even if unlocked").
MayEdit(lock, user) == TRUE

\* main.py:184-191; data["xml"] raises KeyError when the field is missing.
OnXml(c, m) ==
    /\ Receives(c, m)
    /\ m.type = "xml"
    /\ LET fid   == fileOf[c]
           files == IF MayEdit(FILES[fid].lock, username[c])
                    THEN [FILES EXCEPT ![fid].xml = m.xml]
                    ELSE FILES
           r     == Run(files, fid,
                        [type |-> "xml", xml |-> files[fid].xml,
                         by |-> username[c]],
                        "recv")
       IN  IF m.xml = Missing
           THEN Cleanup(c)
           ELSE /\ FILES' = files
                /\ Goto(c, r)
                /\ Updated(c, "xml", files[fid].sockets, r)
                /\ UNCHANGED <<now, fileOf, username, reply, lastState,
                               cleaned, response, grantee>>

\* main.py:193-197
OnFocus(c, m) ==
    /\ Receives(c, m)
    /\ m.type = "focus"
    /\ LET fid   == fileOf[c]
           elem  == m.element
           files == [FILES EXCEPT ![fid].focus = Put(@, elem, username[c])]
           r     == PushState(files, fid, "recv")
       IN  IF elem \notin {None, ""}
           THEN /\ FILES' = files
                /\ Goto(c, r)
                /\ Updated(c, "state", files[fid].sockets, r)
           ELSE UNCHANGED <<FILES, pc, bc, peer, owed, covers>>
    /\ UNCHANGED <<now, fileOf, username, reply, lastState, cleaned,
                   response, grantee>>

\* Mutant of Focused: the test is left out.
FocusedAlways(focus, elem) == TRUE

\* main.py:201: elem in room["focus"]
Focused(focus, elem) == elem \in DOMAIN focus

\* main.py:199-203
OnBlur(c, m) ==
    /\ Receives(c, m)
    /\ m.type = "blur"
    /\ LET fid   == fileOf[c]
           elem  == m.element
           files == [FILES EXCEPT ![fid].focus = Del(@, elem)]
           r     == PushState(files, fid, "recv")
       IN  IF Focused(FILES[fid].focus, elem)
           THEN /\ FILES' = files
                /\ Goto(c, r)
                /\ Updated(c, "state", files[fid].sockets, r)
           ELSE UNCHANGED <<FILES, pc, bc, peer, owed, covers>>
    /\ UNCHANGED <<now, fileOf, username, reply, lastState, cleaned,
                   response, grantee>>

\* Any other type, or none: the loop goes back to receive_text.
OnOther(c, m) ==
    /\ Receives(c, m)
    /\ m.type = "other"
    /\ UNCHANGED <<FILES, now, pc, fileOf, username, bc, reply, peer, lastState,
                   cleaned, response, grantee, owed, covers>>

----------------------------------------------------------------------------
(* The program *)

\* The sessions of one document.
Next ==
    \/ \E d \in TickSteps : Tick(d)
    \/ \E c \in Conns : Connect(c, Doc)
    \/ \E c \in Conns : Drop(c)
    \/ \E c \in Conns : Disconnect(c)
    \/ \E c \in Conns, m \in Messages : OnXml(c, m)
    \/ \E c \in Conns, m \in Messages : OnFocus(c, m)
    \/ \E c \in Conns, m \in Messages : OnJoin(c, m)
    \/ \E c \in Conns, m \in Messages : OnLock(c, m)
    \/ \E c \in Conns, m \in Messages : OnUnlock(c, m)
    \/ \E c \in Conns, m \in Messages : OnBlur(c, m)
    \/ \E c \in Conns, m \in Messages : OnOther(c, m)
    \/ \E c \in Conns, m \in Messages : OnGarbage(c, m)
    \/ \E c \in Conns, b \in BOOLEAN : Reply(c, b)
    \/ \E c \in Conns, ws \in Conns, b \in BOOLEAN : Send(c, ws, b)

Spec == Init /\ [][Next]_vars

\* The same with the REST handlers and sessions on every document.
NextFiles ==
    \/ Next
    \/ \E n \in Names, x \in Contents \cup {None, ""} : create_file(n, x)
    \/ \E f \in FileIds, x \in Contents : save_file(f, x)
    \/ \E c \in Conns, f \in FileIds : Connect(c, f)

SpecFiles == Init /\ [][NextFiles]_vars

----------------------------------------------------------------------------
(* Vocabulary of the properties *)

\* The room of a connected session.
RoomOf(c) == FILES[fileOf[c]]

\* No coroutine is inside a handler or a broadcast.
Idle == \A c \in Conns : pc[c] \in {"init", "recv", "done"}

\* The session of ws awaits its next inbound text, its transport is open and
\* the room still sends to it.
Live(ws) ==
    /\ pc[ws] = "recv"
    /\ peer[ws] = "open"
    /\ ws \in RoomOf(ws).sockets

\* The message loop of c has been left.
Ended(c) == pc[c] = "done" \/ (pc[c] = "bcast" /\ bc[c].then = "done")

\* The lock is held and its age at time t does not exceed the TTL.
Fresh(lock, t) == lock # NoLock /\ t - lock[1].since <= 600

\* Values a lock can have: None, or one dict with one holder and a time.
LockValues ==
    {NoLock} \cup
    {Lock(u, t) : u \in {None, "anon", "alice"},
                  t \in 0 .. MaxEvents * (LOCK_TIMEOUT + 1)}

----------------------------------------------------------------------------
(* C1 *)

\* C1: every room has no lock or exactly one lock with a single holder, and
\* a step replaces a held lock by another one only if the held lock is older
\* than the TTL: between a grant and the clearing (or expiry) of that lock no
\* further lock request is granted.
C1_LockMutualExclusion ==
    [][\A f \in DOMAIN FILES :
          /\ FILES'[f].lock \in LockValues
          /\ (FILES[f].lock # NoLock /\ FILES'[f].lock # NoLock
                /\ FILES'[f].lock # FILES[f].lock)
             => ~Fresh(FILES[f].lock, now)]_vars

\* A lock is held and a request for it has just been denied.
C1_Witness ==
    \E c \in Conns :
        /\ pc[c] = "reply"
        /\ reply[c][1].type = "lock-denied"
        /\ RoomOf(c).lock # NoLock
        /\ reply[c][1].lock = RoomOf(c).lock

----------------------------------------------------------------------------
(* C2 *)

\* C2: a lock message handled while another user holds a lock not older than
\* the TTL changes nothing in the room, starts no broadcast, delivers nothing,
\* and leaves the requester (and only it) sending a lock-denied reply that
\* carries the current lock.
C2_DeniedForOtherUsers ==
    [][\A c \in Conns, m \in Messages :
          (/\ OnLock(c, m)
           /\ Fresh(RoomOf(c).lock, now)
           /\ RoomOf(c).lock[1].by # username[c])
          => /\ FILES' = FILES
             /\ bc' = bc
             /\ lastState' = lastState
             /\ pc' = [pc EXCEPT ![c] = "reply"]
             /\ reply' = [reply EXCEPT ![c] =
                            <<[type |-> "lock-denied",
                               lock |-> RoomOf(c).lock]>>]]_vars

\* A session is sending the lock-denied reply for a lock of another user.
C2_Witness ==
    \E c \in Conns :
        /\ pc[c] = "reply"
        /\ reply[c][1].type = "lock-denied"
        /\ reply[c][1].lock = RoomOf(c).lock
        /\ Fresh(RoomOf(c).lock, now)
        /\ RoomOf(c).lock[1].by # username[c]

----------------------------------------------------------------------------
(* C3 *)

----------------------------------------------------------------------------
(* C4 *)

\* C4: an unlock message clears the lock when the session's username equals
\* lock.holder; in every other case (no lock, another holder) the room is
\* unchanged and no broadcast starts.
C4_UnlockOnlyByHolder ==
    [][\A c \in Conns, m \in Messages :
          OnUnlock(c, m)
          => IF RoomOf(c).lock # NoLock /\ RoomOf(c).lock[1].by = username[c]
             THEN FILES'[fileOf[c]].lock = NoLock
             ELSE FILES' = FILES /\ bc' = bc /\ pc' = pc
                  /\ lastState' = lastState]_vars

\* The holder's unlock cleared the lock and its "unlock" event is on its way
\* to the sessions of the room; another session, which did not hold the lock,
\* is in the room.
C4_Witness ==
    \E c \in Conns :
        /\ pc[c] = "bcast"
        /\ bc[c].msg.type = "unlock"
        /\ RoomOf(c).lock = NoLock
        /\ Cardinality(RoomOf(c).sockets) > 1

----------------------------------------------------------------------------
(* C5 *)

\* The username of c holds the lock of its room.
Holds(c) == RoomOf(c).lock # NoLock /\ RoomOf(c).lock[1].by = username[c]

\* The step runs the finally block of c.
CleansUp(c) == cleaned'[c] = cleaned[c] + 1

\* C5: the step in which the session holding the lock runs its cleanup
\* clears the lock, removes the holder from presence and the connection from
\* the connection set, and starts a broadcast, to every connection left in
\* the room, of the snapshot of the room as it is then (lock null, holder
\* not listed).  That text is not changed while the broadcast lasts, and each
\* send of it to an open connection delivers it.
C5_HolderCleanup ==
    [][\A c \in Conns :
          /\ (CleansUp(c) /\ Holds(c))
             => LET after == FILES'[fileOf[c]] IN
                /\ after.lock = NoLock
                /\ username[c] \notin after.users
                /\ c \notin after.sockets
                /\ IF after.sockets = {}
                   THEN pc'[c] = "done"
                   ELSE /\ pc'[c] = "bcast"
                        /\ bc'[c].todo = after.sockets
                        /\ bc'[c].msg.type = "state"
                        /\ bc'[c].msg.lock = NoLock
                        /\ bc'[c].msg.users = after.users
                        /\ bc'[c].msg.xml = after.xml
                        /\ bc'[c].msg.focus = after.focus
          /\ (Ended(c) /\ pc[c] = "bcast")
             => /\ pc'[c] = "bcast" => bc'[c].msg = bc[c].msg
                /\ \A ws \in bc[c].todo :
                      (peer[ws] = "open"
                         /\ (pc'[c] = "done" \/ ws \notin bc'[c].todo))
                      => lastState'[ws] = <<bc[c].msg>>]_vars

\* The holder's session has left its loop and the snapshot with lock null is
\* about to be sent to a client that still sees the holder's lock.
C5_Witness ==
    \E c \in Conns, ws \in Conns :
        /\ pc[c] = "bcast" /\ bc[c].then = "done"
        /\ username[c] # None
        /\ ws \in bc[c].todo
        /\ peer[ws] = "open"
        /\ lastState[ws] # <<>>
        /\ lastState[ws][1].lock # NoLock
        /\ lastState[ws][1].lock[1].by = username[c]
        /\ username[c] \in lastState[ws][1].users
        /\ bc[c].msg.lock = NoLock
        /\ username[c] \notin bc[c].msg.users

----------------------------------------------------------------------------
(* C6 *)

\* C6: when no handler or broadcast is in progress (so that nothing
\* more happens without a further inbound text), every live connection has
\* been delivered, for each update made to its room while it was in it (join,
\* granted lock, unlock, xml, focus, blur, cleanup), a "state" text built
\* after that update.
C6_SnapshotAfterEveryUpdate ==
    Idle => \A ws \in Conns : (pc[ws] = "recv" /\ Live(ws)) => owed[ws] = {}

\* What the code does for every update but the xml content update (whose
\* handler, main.py:184-191, does not call push_state).
SnapshotAfterStateUpdate ==
    Idle => \A ws \in Conns :
                (pc[ws] = "recv" /\ Live(ws)) => "state" \notin owed[ws]

----------------------------------------------------------------------------
(* C7 *)

----------------------------------------------------------------------------
(* C8 *)

\* C8: an xml message with content replaces the room's content
\* when the sender's username holds the lock and leaves it unchanged when it
\* does not.
C8_EditOnlyByHolder ==
    [][\A c \in Conns, m \in Messages :
          (OnXml(c, m) /\ m.xml # Missing)
          => FILES'[fileOf[c]].xml =
                IF Holds(c) THEN m.xml ELSE RoomOf(c).xml]_vars

----------------------------------------------------------------------------
(* C9 *)

\* C9: an xml message without its content field, or a focus message without
\* an element, leaves the room unchanged (the session attached, its username
\* in presence, its lock kept) and makes the session send an "error" reply.
C9_MalformedAnswered ==
    [][\A c \in Conns, m \in Messages :
          ((OnXml(c, m) /\ m.xml = Missing)
             \/ (OnFocus(c, m) /\ m.element = None))
          => /\ FILES' = FILES
             /\ pc'[c] = "reply"
             /\ reply'[c] # <<>>
             /\ reply'[c][1].type = "error"]_vars

----------------------------------------------------------------------------
(* C10 *)

\* C10: when no handler or broadcast is in progress, the last "state" text
\* delivered to each live connection carries the current lock, presence and
\* focus of its room.  (The content is left out of the comparison: the code
\* sends no "state" text after an xml update, see C6.)
C10_Convergence ==
    Idle => \A ws \in Conns :
                (pc[ws] = "recv" /\ Live(ws) /\ lastState[ws] # <<>>)
                => /\ lastState[ws][1].lock = RoomOf(ws).lock
                   /\ lastState[ws][1].users = RoomOf(ws).users
                   /\ lastState[ws][1].focus = RoomOf(ws).focus

----------------------------------------------------------------------------
(* C11 *)

\* C11: a step of a broadcast sends the text to one more connection of the
\* set copied at its start, whether or not an earlier send of that broadcast
\* raised, and delivers it if that connection is open; an exception of the
\* send does not leave the loop of broadcast nor reach the handler (no
\* finally block runs).  While connections are left to send to, the room is
\* not changed; with the last send the broadcast returns, having removed
\* from the room's sockets exactly those whose send raised and changed no
\* other field of any room.
C11_BroadcastIsolation ==
    [][\A c \in Conns, ws \in Conns, b \in BOOLEAN :
          Send(c, ws, b)
          => LET failed == bc[c].dead \cup (IF b THEN {ws} ELSE {}) IN
             /\ cleaned' = cleaned
             /\ (peer[ws] = "open" /\ bc[c].msg.type = "state")
                => lastState'[ws] = <<bc[c].msg>>
             /\ IF bc[c].todo # {ws}
                THEN /\ FILES' = FILES
                     /\ pc'[c] = "bcast"
                     /\ bc'[c] = [bc[c] EXCEPT !.todo = @ \ {ws},
                                               !.dead = failed]
                ELSE /\ FILES' = [FILES EXCEPT ![fileOf[c]].sockets =
                                                  @ \ failed]
                     /\ pc'[c] # "bcast"
                        => pc'[c] = IF bc[c].then = "push" THEN "recv"
                                    ELSE bc[c].then
                     /\ pc'[c] = "bcast"
                        => /\ bc[c].then = "push"
                           /\ bc'[c].msg = StateMsg(FILES'[fileOf[c]])]_vars

\* A send of a broadcast has raised and the same broadcast still has the
\* text to send to a connection that is open.
C11_Witness ==
    \E c \in Conns, ws \in Conns :
        /\ pc[c] = "bcast"
        /\ bc[c].dead # {}
        /\ ws \in bc[c].todo
        /\ peer[ws] = "open"

----------------------------------------------------------------------------
(* C12 *)

\* The usernames a session can have after a join (main.py:157).
Usernames == {Or(u, "anon") : u \in UserVals}

\* The session of c is in its message loop for room f and its last join set
\* the username u.
JoinedAs(c, f, u) == pc[c] = "recv" /\ fileOf[c] = f /\ username[c] = u

\* C12: when no handler or broadcast is in progress, a username is in the
\* presence of a room if and only if some session in its message loop for
\* that room has joined with it.
C12_PresenceIsJoined ==
    Idle => \A f \in DOMAIN FILES, u \in Usernames :
                u \in FILES[f].users <=> \E c \in Conns : JoinedAs(c, f, u)

----------------------------------------------------------------------------
(* C13 *)

\* C13: whenever a step puts a lock on a room, its holder is the username of
\* a session of that room which that session has set through a join message
\* before (the local variable username is None until the first join and is
\* assigned by join only); so that no lock is ever held by an unset username.
C13_HolderHasJoined ==
    [][\A f \in DOMAIN FILES :
          (FILES'[f].lock # NoLock /\ FILES'[f].lock # FILES[f].lock)
          => \E c \in Conns :
                /\ fileOf[c] = f
                /\ username[c] # None
                /\ FILES'[f].lock[1].by = username[c]]_vars

----------------------------------------------------------------------------
(* C14 *)

\* n spaces
RECURSIVE Spaces(_)
Spaces(n) == IF n = 0 THEN <<>> ELSE <<" ">> \o Spaces(n - 1)

\* t is name without the spaces at its two ends.
Trimmed(name, t) ==
    /\ \E i, j \in 0 .. Len(name) : name = Spaces(i) \o t \o Spaces(j)
    /\ t # <<>> => (t[1] # " " /\ t[Len(t)] # " ")

\* The pieces of a name.
Pieces(name) ==
    {<<>>} \cup {SubSeq(name, i, j) : i, j \in 1 .. Len(name)}

\* C14: POST /files answers 400 when the name is empty after trimming and
\* 409 when the trimmed name is the id of a room of the registry, however
\* that room was created, and in both cases leaves the registry and every
\* room as they are; otherwise it answers with the trimmed id and adds to the
\* registry, whose other rooms are unchanged, a room of that id with no lock
\* and empty presence, focus and sockets.
C14_CreateFile ==
    [][\A name \in Names, x \in Contents \cup {None, ""} :
          create_file(name, x)
          => \A t \in Pieces(name) :
                Trimmed(name, t)
                => IF t = <<>>
                   THEN response'.status = 400 /\ FILES' = FILES
                   ELSE IF t \in DOMAIN FILES
                   THEN response'.status = 409 /\ FILES' = FILES
                   ELSE /\ response' = Ok200([ok |-> TRUE, id |-> t])
                        /\ DOMAIN FILES' = DOMAIN FILES \cup {t}
                        /\ \A f \in DOMAIN FILES : FILES'[f] = FILES[f]
                        /\ FILES'[t].lock = NoLock
                        /\ FILES'[t].users = {}
                        /\ FILES'[t].focus = <<>>
                        /\ FILES'[t].sockets = {}]_vars

\* The only room of the registry was created by a connection, whose session
\* has joined (the two events so far are the join and the request), and a
\* request to create it has been answered 409.
C14_Witness ==
    /\ response.status = 409
    /\ events = 2
    /\ DOMAIN FILES = {Doc}
    /\ FILES[Doc].users # {}
    /\ FILES[Doc].sockets # {}

----------------------------------------------------------------------------
(* C15 *)

\* C15: a blur message for an element that is not a key of the room's focus
\* map changes no room, starts no broadcast, sends and delivers nothing and
\* leaves the session awaiting its next message with its transport as it
\* was; and after any blur message the element is not a key of the focus
\* map, so that the same blur applied again is that no-op.
C15_BlurIdempotent ==
    [][\A c \in Conns, m \in Messages :
          OnBlur(c, m)
          => /\ m.element \notin DOMAIN FILES'[fileOf[c]].focus
             /\ m.element \notin DOMAIN RoomOf(c).focus
                => /\ FILES' = FILES
                   /\ bc' = bc
                   /\ reply' = reply
                   /\ lastState' = lastState
                   /\ pc' = pc
                   /\ pc'[c] = "recv"
                   /\ peer' = peer
                   /\ cleaned' = cleaned]_vars

\* A blur has emptied the focus map (a client still sees the element
\* focused), and sessions of the room await their next message, for which
\* there is room: a blur of that element would now find it absent.
C15_Witness ==
    \E c \in Conns, ws \in Conns :
        /\ pc[c] = "recv" /\ peer[c] = "open"
        /\ events < MaxEvents
        /\ RoomOf(c).focus = <<>>
        /\ fileOf[ws] = fileOf[c]
        /\ lastState[ws] # <<>>
        /\ DOMAIN lastState[ws][1].focus # {}

----------------------------------------------------------------------------
(* C16 *)

\* C16: a lock message handled when now - lock.since is exactly 600 finds
\* the lock expired: the lock is then held by the requester since now.
C16_ExpiredAtTTL ==
    [][\A c \in Conns, m \in Messages :
          (/\ OnLock(c, m)
           /\ RoomOf(c).lock # NoLock
           /\ now - RoomOf(c).lock[1].since = 600)
          => FILES'[fileOf[c]].lock = Lock(username[c], now)]_vars

\* C16 amended: a lock message handled when now - lock.since is exactly 600
\* finds the lock still held: the lock is kept as it is and the requester
\* is sent lock-denied with it; one second later the lock is expired and
\* the requester holds the lock since now.
C16_HeldAtTTL ==
    [][\A c \in Conns, m \in Messages :
          (OnLock(c, m) /\ RoomOf(c).lock # NoLock)
          => /\ now - RoomOf(c).lock[1].since = 600
                => /\ FILES' = FILES
                   /\ pc'[c] = "reply"
                   /\ reply'[c] = <<[type |-> "lock-denied",
                                     lock |-> RoomOf(c).lock]>>
             /\ now - RoomOf(c).lock[1].since = 601
                => FILES'[fileOf[c]].lock = Lock(username[c], now)]_vars

\* A request made exactly 600 seconds after the grant is being answered
\* lock-denied.
C16_Witness ==
    \E c \in Conns :
        /\ pc[c] = "reply"
        /\ reply[c][1].type = "lock-denied"
        /\ reply[c][1].lock # NoLock
        /\ now - reply[c][1].lock[1].since = 600

----------------------------------------------------------------------------
(* C17 *)

\* C17: a step changes a lock that is on a room only if it is the handling
\* of an unlock message of a session whose username is the holder, or of a
\* lock message when the lock is 600 seconds old or more, or the cleanup of
\* the connection whose request was granted that lock.
C17_LockClearedOnlyBy ==
    [][\A f \in DOMAIN FILES :
          (FILES[f].lock # NoLock /\ FILES'[f].lock # FILES[f].lock)
          => \/ \E c \in Conns, m \in Messages :
                   /\ OnUnlock(c, m)
                   /\ fileOf[c] = f
                   /\ username[c] = FILES[f].lock[1].by
             \/ \E c \in Conns, m \in Messages :
                   /\ OnLock(c, m)
                   /\ fileOf[c] = f
                   /\ now - FILES[f].lock[1].since >= 600
             \/ \E c \in grantee :
                   /\ CleansUp(c)
                   /\ fileOf[c] = f]_vars

----------------------------------------------------------------------------
(* C18 *)

\* The step is one of the coroutine of c: the handling of an inbound text,
\* the cleanup, or the end of one of its sends.
StepOf(c) ==
    \/ \E m \in Messages :
          \/ OnJoin(c, m) \/ OnLock(c, m) \/ OnUnlock(c, m) \/ OnXml(c, m)
          \/ OnFocus(c, m) \/ OnBlur(c, m) \/ OnOther(c, m) \/ OnGarbage(c, m)
    \/ Disconnect(c)
    \/ \E b \in BOOLEAN : Reply(c, b)
    \/ \E ws \in Conns, b \in BOOLEAN : Send(c, ws, b)

\* C18: a step of the coroutine of a connection attached to a room leaves
\* every other room of the registry as it is, and no step at all removes a
\* room id from the registry.
C18_NoCrossRoom ==
    [][/\ DOMAIN FILES \subseteq DOMAIN FILES'
       /\ \A c \in Conns :
             StepOf(c)
             => \A f \in DOMAIN FILES \ {fileOf[c]} : FILES'[f] = FILES[f]]_vars

\* Two sessions are in two rooms; the session of one room holds its lock,
\* and the session of the other room, whose username is the same, has run
\* its cleanup.
C18_Witness ==
    \E c \in Conns, d \in Conns :
        /\ pc[c] = "recv" /\ Ended(d)
        /\ cleaned[d] = 1
        /\ fileOf[c] # fileOf[d]
        /\ username[c] = username[d]
        /\ RoomOf(c).lock # NoLock
        /\ RoomOf(c).lock[1].by = username[c]

----------------------------------------------------------------------------
(* C19 *)

\* The connections that were ever attached to room f.
Attached(f) == {c \in Conns : fileOf[c] = f}

\* C19: when every connection that was ever attached to a room has ended,
\* its cleanup and the broadcast of it over, the presence of that room is
\* empty and its lock is null.
C19_NoResidue ==
    \A f \in DOMAIN FILES :
        (Attached(f) # {} /\ \A c \in Attached(f) : pc[c] = "done")
        => FILES[f].users = {} /\ FILES[f].lock = NoLock

----------------------------------------------------------------------------
(* C20 *)

\* C20: a lock message of a session whose username holds a lock not older
\* than the TTL changes nothing in the room (holder and since are kept),
\* starts no broadcast, delivers nothing, and leaves the session sending a
\* lock-denied reply that carries that lock, whose holder is the session's
\* own username.
C20_HolderDenied ==
    [][\A c \in Conns, m \in Messages :
          (OnLock(c, m) /\ Holds(c) /\ Fresh(RoomOf(c).lock, now))
          => /\ FILES' = FILES
             /\ bc' = bc
             /\ lastState' = lastState
             /\ pc' = [pc EXCEPT ![c] = "reply"]
             /\ reply'[c] = <<[type |-> "lock-denied",
                               lock |-> Lock(username[c],
                                             RoomOf(c).lock[1].since)]>>]_vars

\* The session that was granted the lock of its room, which it still
\* holds, is being answered lock-denied with its own lock.
C20_Witness ==
    \E c \in grantee :
        /\ pc[c] = "reply"
        /\ Holds(c)
        /\ reply[c] = <<[type |-> "lock-denied", lock |-> RoomOf(c).lock]>>

====
